---- MODULE Spec2Model ----
(***************************************************************************)
(* Planning Center connector (src/app.py): the OAuth handshake of /connect *)
(* and /auth/callback, the token store with its lazy refresh, and the      *)
(* upstream fetch with rate-limit backoff and pagination.                  *)
(*                                                                         *)
(* Spec     the OAuth / token lifecycle: concurrent request handlers, each *)
(*          await of the code being a separate step.                       *)
(* SpecGet  one service-types walk: _fetch_service_types calling pco_get.  *)
(* SpecSvc  one /pco/* request after its token was obtained: the service-  *)
(*          type resolution, _best_name_matches and the flattening of the  *)
(*          people and plans documents.                                    *)
(***************************************************************************)
EXTENDS Integers, Sequences, FiniteSets, TLC

\* ------------------------------------------------------------------ bounds
MaxRequests == 3      \* /auth/callback and /pco/* requests started in a run
MaxConnects == 2      \* /connect requests that reach the nonce generation
MaxTokens == 3        \* 200 answers of the token endpoint in a run
MaxNow == 31          \* the clock stops here
MaxPagesArg == 3      \* the largest max_pages a walk is started with

\* ------------------------------------------------------- program constants
RefreshWindow == 60         \* get_valid_access_token: expires_at - now < 60
DefaultExpiresIn == 3600    \* .get("expires_in", 3600)

\* Python's None; identifiers (nonces, tokens, codes) are positive numbers and
\* 0 is a string that is no identifier of the run (the empty or a made-up one).
NoneVal == -1
Truthy(x) == x # NoneVal /\ x # 0

Tenants == {"default"}
Sessions == {"s1"}
Procs == {1, 2}          \* the handler slots; a request takes the lowest free one
Objs == 1 .. 3        \* the live record dicts: the stored one, one per handler
CodeValues == {1}
TickSteps == {30}
ExpiresInValues == {NoneVal, 30, 60}
TokenStatuses == {200, 400, 401}
RefreshStatuses == {200, 401}
ApiStatuses == {200, 404}
StateParams == {NoneVal, 0} \cup (1 .. MaxConnects)
ErrorParams == {NoneVal, 1}

VARIABLES
    configured,     \* PCO_CLIENT_ID and PCO_REDIRECT_URI are both set
    session,        \* request.session of each browser session
    nextNonce,      \* secrets.token_urlsafe: the next fresh value
    TOKEN_STORE,    \* tenant -> the dict object stored (0: no record)
    heap,           \* the token-record dict objects, by identity
    now,            \* time.time()
    nextTok,        \* the next token the token endpoint issues
    started,        \* requests started so far
    pc,             \* where each request handler stands
    sess,           \* the session of the request a handler serves
    entry,          \* get_valid_access_token: the local `entry`
    local,          \* auth_callback: code, state, code_verifier
    tok,            \* the token get_valid_access_token returned
    reqs,           \* the upstream requests the handler has sent
    resp,           \* the latest answer a handler gave its client
    lastCall,       \* the token the latest get_valid_access_token returned and
                    \* the calls that returned it since the clock or
                    \* /auth/callback last moved on
    \* _fetch_service_types and pco_get (SpecGet)
    fpc,            \* where the walk stands
    max_pages,      \* the max_pages argument of the walk
    url,            \* the page to fetch next (falsy: none)
    pages,          \* pages fetched so far
    items,          \* the items collected so far
    attempt,        \* pco_get: retries made in the current call
    sent,           \* pco_get: requests sent in the current call
    answers,        \* pco_get: the answers received in the current call
    slept,          \* pco_get: the sleeps of the current call
    r,              \* the answer pco_get handed to its caller
    fetched,        \* the payloads of the pages fetched so far
    raised,         \* the status of the error the walk raised (0: none)
    \* the /pco/* handlers past get_valid_access_token (SpecSvc)
    DEFAULT_SERVICE_TYPE_ID,    \* os.getenv("DEFAULT_SERVICE_TYPE_ID")
    DEFAULT_SERVICE_TYPE_NAME,  \* os.getenv("DEFAULT_SERVICE_TYPE_NAME")
    svc_request,    \* the route and the query parameters of the request
    spc,            \* where the handler stands
    use_id,         \* services_plans: the service type chosen so far
    match_items,    \* _best_name_matches: the items of the latest call
    match_query,    \* _best_name_matches: the query of the latest call
    scored,         \* _best_name_matches: the (score, item) pairs before the sort
    matches,        \* _best_name_matches: what the latest call returned
    svc_reqs,       \* the upstream fetches the handler has made
    svc_resp        \* the handler's answer to its client

authVars == <<configured, session, nextNonce, TOKEN_STORE, heap, now, nextTok,
              started, pc, sess, entry, local, tok, reqs, resp, lastCall>>
getVars == <<fpc, max_pages, url, pages, items, attempt, sent, answers, slept,
             r, fetched, raised>>
svcVars == <<DEFAULT_SERVICE_TYPE_ID, DEFAULT_SERVICE_TYPE_NAME, svc_request, spc,
             use_id, match_items, match_query, scored, matches, svc_reqs, svc_resp>>
vars == <<authVars, getVars, svcVars>>

\* ----------------------------------------------------------------- helpers
DefaultMaxPages == 5        \* _fetch_service_types(..., max_pages: int = 5)
NoHeader == [kind |-> "absent", seconds |-> 0]
NoAnswer == [n |-> 0, status |-> 0, retry_after |-> NoHeader, data |-> <<>>,
             next |-> NoneVal]
EmptySession == [oauth_state |-> NoneVal, pkce_verifier |-> NoneVal]
NoRecord == [access_token |-> NoneVal, refresh_token |-> NoneVal, expires_at |-> 0]
NoLocal == [code |-> NoneVal, state |-> NoneVal, code_verifier |-> NoneVal]

tenant_key_from_request == "default"

\* Strings with an inner structure (names, queries, dates) are sequences of
\* characters; None in the place of such a string is this marker.
NoneStr == <<"None">>
TruthyStr(x) == x # NoneStr /\ x # <<>>
NoRequest == [route |-> "none", query |-> NoneStr, service_type_id |-> NoneVal,
              service_type_name |-> NoneStr, from_date |-> NoneStr,
              to_date |-> NoneStr]
NoSvcResponse == [status |-> 0, count |-> 0, body |-> <<>>]

\* An upstream request: the grant (or "api_get"), how the credentials travel,
\* the code, refresh token or bearer token, and the PKCE code_verifier.
Request(grant, auth, arg, verifier) ==
    [grant |-> grant, auth |-> auth, arg |-> arg, code_verifier |-> verifier]

\* An answer to the client: the route, the status, the error detail, the
\* upstream body passed on, and how the credentials of each upstream request
\* the handler sent travelled. The JSON of a 200 answer is not kept.
Response(route, status, detail, upstream, log) ==
    [route |-> route, status |-> status, detail |-> detail,
     upstream |-> upstream, reqs |-> [i \in DOMAIN log |-> log[i].auth]]
NoResponse == Response("none", 0, "none", NoneVal, <<>>)

\* r.text of the answer with this status to the handler's k-th request
Body(k, status) == k * 1000 + status

\* int(payload.get("expires_in", 3600))
ExpiresIn(payload) ==
    IF payload.expires_in = NoneVal THEN DefaultExpiresIn ELSE payload.expires_in

\* The token payloads a 200 answer of the token endpoint may carry.
TokenPayloads ==
    [access_token : {nextTok}, refresh_token : {NoneVal, nextTok},
     expires_in : ExpiresInValues]

\* The ledger of get_valid_access_token calls that returned back to back.
NoCall == [token |-> NoneVal, calls |-> 0]
Returned(t) ==
    [token |-> t, calls |-> IF lastCall.calls = 0 THEN 1 ELSE 2]

\* A non-200 answer carries no token payload.
NoPayload == [access_token |-> NoneVal, refresh_token |-> NoneVal, expires_in |-> NoneVal]
PayloadsOf(status) == IF status = 200 THEN TokenPayloads ELSE {NoPayload}

\* The record dicts something still refers to; the others are collected.
Live(store, ent) == {store[t] : t \in Tenants} \cup {ent[p] : p \in Procs}
Collect(h, store, ent) ==
    [o \in Objs |-> IF o \in Live(store, ent) THEN h[o] ELSE NoRecord]
NewObj == CHOOSE o \in Objs : o \notin Live(TOKEN_STORE, entry)

\* The handler has answered: its frame is gone.
Finish(p) ==
    /\ pc' = [pc EXCEPT ![p] = "idle"]
    /\ sess' = [sess EXCEPT ![p] = "none"]
    /\ local' = [local EXCEPT ![p] = NoLocal]
    /\ tok' = [tok EXCEPT ![p] = NoneVal]
    /\ reqs' = [reqs EXCEPT ![p] = <<>>]

\* -------------------------------------------------------------------- Init
InitGetIdle ==
    /\ fpc = "start"
    /\ url = NoneVal
    /\ pages = 0
    /\ items = <<>>
    /\ attempt = 0
    /\ sent = 0
    /\ answers = <<>>
    /\ slept = <<>>
    /\ r = NoAnswer
    /\ fetched = <<>>
    /\ raised = 0

\* No /pco/* request is past its token; no default service type is set.
InitSvcIdle ==
    /\ DEFAULT_SERVICE_TYPE_ID = NoneVal
    /\ DEFAULT_SERVICE_TYPE_NAME = NoneStr
    /\ svc_request = NoRequest
    /\ spc = "idle"
    /\ use_id = NoneVal
    /\ match_items = <<>>
    /\ match_query = NoneStr
    /\ scored = <<>>
    /\ matches = <<>>
    /\ svc_reqs = <<>>
    /\ svc_resp = NoSvcResponse

InitAuth ==
    /\ configured \in BOOLEAN
    /\ session = [s \in Sessions |-> EmptySession]
    /\ nextNonce = 1
    /\ TOKEN_STORE = [t \in Tenants |-> 0]
    /\ heap = [o \in Objs |-> NoRecord]
    /\ now = 1
    /\ nextTok = 1
    /\ started = 0
    /\ pc = [p \in Procs |-> "idle"]
    /\ sess = [p \in Procs |-> "none"]
    /\ entry = [p \in Procs |-> 0]
    /\ local = [p \in Procs |-> NoLocal]
    /\ tok = [p \in Procs |-> NoneVal]
    /\ reqs = [p \in Procs |-> <<>>]
    /\ resp = NoResponse
    /\ lastCall = NoCall

\* The process after start-up; the walk of SpecGet is not under way.
Init ==
    /\ InitAuth
    /\ InitGetIdle
    /\ InitSvcIdle
    /\ max_pages = DefaultMaxPages

\* ---------------------------------------------------------------- /connect
\* The 500 of an unconfigured server changes nothing; otherwise the fresh
\* state and verifier are put in the session and the browser is redirected.
connect_to_planning_center(s) ==
    /\ IF ~configured
       THEN UNCHANGED <<session, nextNonce>>
       ELSE /\ nextNonce <= MaxConnects
            /\ session' = [session EXCEPT ![s] =
                              [oauth_state |-> nextNonce, pkce_verifier |-> nextNonce]]
            /\ nextNonce' = nextNonce + 1
    /\ UNCHANGED getVars
    /\ UNCHANGED svcVars
    /\ UNCHANGED <<configured, TOKEN_STORE, heap, now, nextTok, started, pc,
                   sess, entry, local, tok, reqs, resp, lastCall>>

\* ----------------------------------------------------------- /auth/callback
\* request.session.get("oauth_state") != state
StateMismatch(s, state) == session[s].oauth_state # state

\* Lines 136-140: the record is stored, the session keys are popped.
StoreToken(p, payload) ==
    /\ TOKEN_STORE' = [TOKEN_STORE EXCEPT ![tenant_key_from_request] = NewObj]
    /\ heap' = Collect([heap EXCEPT ![NewObj] =
                            [access_token |-> payload.access_token,
                             refresh_token |-> payload.refresh_token,
                             expires_at |-> now + ExpiresIn(payload)]],
                       TOKEN_STORE', entry)
    /\ session' = [session EXCEPT ![sess[p]] = EmptySession]
    /\ resp' = Response("auth_callback", 200, "connected", NoneVal, reqs[p])
    /\ Finish(p)
    /\ nextTok' = nextTok + 1
    /\ lastCall' = NoCall

\* Mutant: a failed callback disconnects the tenant.
CallbackFailsDropsRecord(p, failure) ==
    /\ resp' = failure
    /\ Finish(p)
    /\ TOKEN_STORE' = [TOKEN_STORE EXCEPT ![tenant_key_from_request] = 0]
    /\ heap' = Collect(heap, TOKEN_STORE', entry)
    /\ UNCHANGED <<session, nextTok, lastCall>>

\* Lines 134-135: the callback raises; nothing is stored.
CallbackFails(p, failure) ==
    /\ resp' = failure
    /\ Finish(p)
    /\ UNCHANGED <<heap, TOKEN_STORE, session, nextTok, lastCall>>

\* Lines 128-133 up to the first await: the error and state checks, then the
\* first POST of exchange_code_for_token (client secret in the body).
auth_callback(p, s, code, state, error) ==
    /\ pc[p] = "idle"
    /\ \A q \in Procs : q < p => pc[q] # "idle"
    /\ started < MaxRequests
    /\ started' = started + 1
    /\ IF Truthy(error)
       THEN /\ resp' = Response("auth_callback", 400, "OAuth error", error, <<>>)
            /\ UNCHANGED <<pc, sess, local, reqs>>
       ELSE IF StateMismatch(s, state)
       THEN /\ resp' = Response("auth_callback", 400, "Invalid OAuth state",
                                NoneVal, <<>>)
            /\ UNCHANGED <<pc, sess, local, reqs>>
       ELSE /\ local' = [local EXCEPT ![p] =
                            [code |-> code, state |-> state,
                             code_verifier |-> session[s].pkce_verifier]]
            /\ sess' = [sess EXCEPT ![p] = s]
            /\ reqs' = [reqs EXCEPT ![p] =
                           <<Request("authorization_code", "body", code,
                                     session[s].pkce_verifier)>>]
            /\ pc' = [pc EXCEPT ![p] = "exchange1"]
            /\ UNCHANGED resp
    /\ UNCHANGED getVars
    /\ UNCHANGED svcVars
    /\ UNCHANGED <<configured, session, nextNonce, TOKEN_STORE, heap, now,
                   nextTok, entry, tok, lastCall>>

\* Lines 74-79: the answer to the first POST. On 200 the payload is returned
\* and the callback stores it; otherwise the POST is repeated with HTTP Basic.
exchange_first_response(p, status, payload) ==
    /\ pc[p] = "exchange1"
    /\ IF status = 200
       THEN /\ nextTok <= MaxTokens
            /\ StoreToken(p, payload)
       ELSE /\ reqs' = [reqs EXCEPT ![p] =
                           Append(@, Request("authorization_code", "basic",
                                             local[p].code, local[p].code_verifier))]
            /\ pc' = [pc EXCEPT ![p] = "exchange2"]
            /\ UNCHANGED <<heap, TOKEN_STORE, session, resp, nextTok, lastCall,
                           sess, tok, local>>
    /\ UNCHANGED getVars
    /\ UNCHANGED svcVars
    /\ UNCHANGED <<configured, nextNonce, now, started, entry>>

\* Mutant: the upstream status is lost and the default 500 is raised.
ExchangeFailureDefaultStatus(p, status) ==
    Response("auth_callback", 500, "token_exchange_failed",
             Body(Len(reqs[p]), status), reqs[p])

\* The error payload of line 81 as auth_callback raises it at line 135.
ExchangeFailure(p, status) ==
    Response("auth_callback", status, "token_exchange_failed",
             Body(Len(reqs[p]), status), reqs[p])

\* Lines 80-81 and 134-140: the answer to the second POST.
exchange_second_response(p, status, payload) ==
    /\ pc[p] = "exchange2"
    /\ IF status = 200
       THEN /\ nextTok <= MaxTokens
            /\ StoreToken(p, payload)
       ELSE CallbackFails(p, ExchangeFailure(p, status))
    /\ UNCHANGED getVars
    /\ UNCHANGED svcVars
    /\ UNCHANGED <<configured, nextNonce, now, started, entry>>

\* ------------------------------------------------- get_valid_access_token
\* Mutant: the refresh token is not asked for.
NeedsRefreshWithoutToken(e, t) ==
    /\ Truthy(e.expires_at)
    /\ e.expires_at - t < RefreshWindow

\* Mutant: the window includes its end (<= 60).
NeedsRefreshInclusive(e, t) ==
    /\ Truthy(e.expires_at)
    /\ e.expires_at - t <= RefreshWindow
    /\ Truthy(e.refresh_token)

\* Line 91: the record is due for a refresh.
NeedsRefresh(e, t) ==
    /\ Truthy(e.expires_at)
    /\ e.expires_at - t < RefreshWindow
    /\ Truthy(e.refresh_token)

\* Mutant: the missing record is reported as a server error.
UnauthorizedAsServerError == Response("pco", 500, "Not connected", NoneVal, <<>>)

\* Line 90: no record for the tenant.
Unauthorized == Response("pco", 401, "Not connected", NoneVal, <<>>)

\* A /pco/* handler (lines 183, 211, 218, 238, 275) up to its first await:
\* get_valid_access_token up to the refresh POST, or through to the token
\* when no refresh is due.
get_valid_access_token(p) ==
    /\ pc[p] = "idle"
    /\ \A q \in Procs : q < p => pc[q] # "idle"
    /\ started < MaxRequests
    /\ started' = started + 1
    /\ LET e == TOKEN_STORE[tenant_key_from_request] IN
       IF e = 0
       THEN /\ resp' = Unauthorized
            /\ UNCHANGED <<pc, reqs, entry, tok, lastCall>>
       ELSE IF NeedsRefresh(heap[e], now)
       THEN /\ reqs' = [reqs EXCEPT ![p] =
                           <<Request("refresh_token", "body",
                                     heap[e].refresh_token, NoneVal)>>]
            /\ entry' = [entry EXCEPT ![p] = e]
            /\ pc' = [pc EXCEPT ![p] = "refresh"]
            /\ UNCHANGED <<tok, resp, lastCall>>
       ELSE /\ tok' = [tok EXCEPT ![p] = heap[e].access_token]
            /\ pc' = [pc EXCEPT ![p] = "upstream"]
            /\ lastCall' = Returned(heap[e].access_token)
            /\ UNCHANGED <<reqs, entry, resp>>
    /\ UNCHANGED getVars
    /\ UNCHANGED svcVars
    /\ UNCHANGED <<configured, session, nextNonce, TOKEN_STORE, heap, now,
                   nextTok, sess, local>>

\* Mutant: a record that another refresh made fresh meanwhile is kept.
RefreshedUnlessFresh(e, payload, t) ==
    IF e.expires_at - t >= RefreshWindow THEN e
    ELSE [access_token |-> payload.access_token,
          refresh_token |-> IF payload.refresh_token # NoneVal
                            THEN payload.refresh_token ELSE e.refresh_token,
          expires_at |-> t + ExpiresIn(payload)]

\* Mutant: only the access token is written before the handler is suspended.
RefreshedTokenOnly(e, payload, t) ==
    [access_token |-> payload.access_token,
     refresh_token |-> e.refresh_token,
     expires_at |-> e.expires_at]

\* Mutant: the refresh forgets to move expires_at.
RefreshedKeepsExpiry(e, payload, t) ==
    [access_token |-> payload.access_token,
     refresh_token |-> IF payload.refresh_token # NoneVal
                       THEN payload.refresh_token ELSE e.refresh_token,
     expires_at |-> e.expires_at]

\* Lines 93-95: the record dict after the refresh answer was written into it.
Refreshed(e, payload, t) ==
    [access_token |-> payload.access_token,
     refresh_token |-> IF payload.refresh_token # NoneVal
                       THEN payload.refresh_token ELSE e.refresh_token,
     expires_at |-> t + ExpiresIn(payload)]

\* Mutant: a refused refresh falls back to the token of the record.
RefreshFailsFallsBack(p, status) ==
    /\ tok' = [tok EXCEPT ![p] = heap[entry[p]].access_token]
    /\ lastCall' = Returned(heap[entry[p]].access_token)
    /\ pc' = [pc EXCEPT ![p] = "upstream"]
    /\ heap' = Collect(heap, TOKEN_STORE, entry')
    /\ UNCHANGED <<resp, sess, local, reqs, TOKEN_STORE, nextTok>>

\* Line 86: raise_for_status raises on a non-2xx answer, which ends the
\* handler with a server error; nothing was written.
RefreshFails(p, status) ==
    /\ resp' = Response("pco", 500, "HTTPStatusError",
                        Body(Len(reqs[p]), status), reqs[p])
    /\ Finish(p)
    /\ heap' = Collect(heap, TOKEN_STORE, entry')
    /\ UNCHANGED <<TOKEN_STORE, lastCall, nextTok>>

\* Lines 86 and 92-97: the answer to the refresh POST.
refresh_response(p, status, payload) ==
    /\ pc[p] = "refresh"
    /\ entry' = [entry EXCEPT ![p] = 0]
    /\ IF status = 200
       THEN /\ nextTok <= MaxTokens
            /\ TOKEN_STORE' = [TOKEN_STORE EXCEPT ![tenant_key_from_request] = entry[p]]
            /\ heap' = Collect([heap EXCEPT ![entry[p]] = Refreshed(@, payload, now)],
                               TOKEN_STORE', entry')
            /\ tok' = [tok EXCEPT ![p] = heap'[entry[p]].access_token]
            /\ lastCall' = Returned(heap'[entry[p]].access_token)
            /\ nextTok' = nextTok + 1
            /\ pc' = [pc EXCEPT ![p] = "upstream"]
            /\ UNCHANGED <<resp, sess, local, reqs>>
       ELSE RefreshFails(p, status)
    /\ UNCHANGED getVars
    /\ UNCHANGED svcVars
    /\ UNCHANGED <<configured, session, nextNonce, now, started>>

\* The rest of a /pco/* handler: the upstream GET with the bearer token and
\* the answer mapped to the client (SpecGet details the GET itself).
upstream_call(p, status) ==
    /\ pc[p] = "upstream"
    /\ LET log == Append(reqs[p], Request("api_get", "bearer", tok[p], NoneVal)) IN
       resp' = Response("pco", status, IF status = 200 THEN "ok" ELSE "upstream",
                        Body(Len(log), status), log)
    /\ Finish(p)
    /\ UNCHANGED getVars
    /\ UNCHANGED svcVars
    /\ UNCHANGED <<configured, session, nextNonce, TOKEN_STORE, heap, now,
                   nextTok, started, entry, lastCall>>

\* time.time() moves on.
Tick(d) ==
    /\ now + d <= MaxNow
    /\ now' = now + d
    /\ lastCall' = NoCall
    /\ UNCHANGED getVars
    /\ UNCHANGED svcVars
    /\ UNCHANGED <<configured, session, nextNonce, TOKEN_STORE, heap, nextTok,
                   started, pc, sess, entry, local, tok, reqs, resp>>

Next ==
    \/ \E s \in Sessions : connect_to_planning_center(s)
    \/ \E p \in Procs, s \in Sessions, code \in CodeValues,
          state \in StateParams, error \in ErrorParams :
          auth_callback(p, s, code, state, error)
    \/ \E p \in Procs, status \in TokenStatuses :
          \E payload \in PayloadsOf(status) : exchange_first_response(p, status, payload)
    \/ \E p \in Procs, status \in TokenStatuses :
          \E payload \in PayloadsOf(status) : exchange_second_response(p, status, payload)
    \/ \E p \in Procs : get_valid_access_token(p)
    \/ \E p \in Procs, status \in RefreshStatuses :
          \E payload \in PayloadsOf(status) : refresh_response(p, status, payload)
    \/ \E p \in Procs, status \in ApiStatuses : upstream_call(p, status)
    \/ \E d \in TickSteps : Tick(d)

Spec == Init /\ [][Next]_vars

\* ------------------------------------------------------------------ pco_get
max_retries == 3            \* pco_get(..., max_retries: int = 3)

GetStatuses == {200, 429, 500}
\* The Retry-After header of an answer: absent, delay seconds, or an HTTP date.
RetryAfterHeaders ==
    {NoHeader, [kind |-> "seconds", seconds |-> 2], [kind |-> "date", seconds |-> 0]}

\* The `data` a page may carry: items named by page and position.
PageData(k) == {<<>>, <<10 * k + 1>>, <<10 * k + 1, 10 * k + 2>>}
\* The `next` link a page may carry: absent, empty, or the following page.
NextLinks(k) == {NoneVal, 0, k + 1}

\* The answers the upstream may give to the n-th request of a call for page k.
Answers(n, k) ==
    {[n |-> n, status |-> 200, retry_after |-> NoHeader, data |-> d, next |-> l] :
        d \in PageData(k), l \in NextLinks(k)}
    \cup {[n |-> n, status |-> 500, retry_after |-> NoHeader, data |-> <<>>,
           next |-> NoneVal]}
    \cup {[n |-> n, status |-> 429, retry_after |-> h, data |-> <<>>,
           next |-> NoneVal] : h \in RetryAfterHeaders}

\* Mutants of line 63: `and` for `or`; one retry too many; retry unless 200.
GiveUpBothNeeded(status, att) == status # 429 /\ att >= max_retries
GiveUpLate(status, att) == status # 429 \/ att > max_retries
GiveUpOnSuccessOnly(status, att) == status = 200 \/ att >= max_retries

\* Line 63: the answer is handed back to the caller.
GiveUp(status, att) == status # 429 \/ att >= max_retries

\* Line 65: int(r.headers.get("Retry-After", "1")) is defined on digits only.
ParsesAsInt(h) == h.kind # "date"
RetryAfter(h) == IF h.kind = "absent" THEN 1 ELSE h.seconds

\* Mutant: the page cap is missing.
ContinueUncapped(u, n) == Truthy(u)

\* Line 148: the walk goes on.
Continue(u, n) == Truthy(u) /\ n < max_pages

\* Lines 59-62: a pco_get call begins and sends its first request.
BeginGet ==
    /\ attempt' = 0
    /\ sent' = 1
    /\ answers' = <<>>
    /\ slept' = <<>>
    /\ r' = NoAnswer
    /\ fpc' = "request"

\* Lines 144-149: the walk starts with the first page.
fetch_service_types ==
    /\ fpc = "start"
    /\ url' = 1
    /\ items' = <<>>
    /\ pages' = 0
    /\ IF Continue(url', pages')
       THEN BeginGet
       ELSE /\ fpc' = "returned"
            /\ UNCHANGED <<attempt, sent, answers, slept, r>>
    /\ UNCHANGED <<max_pages, fetched, raised>>
    /\ UNCHANGED authVars
    /\ UNCHANGED svcVars

\* Lines 62-66: the answer to a request of pco_get. It is handed back, or the
\* Retry-After header is read and the call sleeps; int() raises on a date.
pco_get(a) ==
    /\ fpc = "request"
    /\ answers' = Append(answers, a.status)
    /\ IF GiveUp(a.status, attempt)
       THEN /\ r' = a
            /\ fpc' = "got"
            /\ UNCHANGED <<slept, raised>>
       ELSE IF ~ParsesAsInt(a.retry_after)
       THEN /\ raised' = 500
            /\ fpc' = "raised"
            /\ UNCHANGED <<slept, r>>
       ELSE /\ slept' = Append(slept, RetryAfter(a.retry_after))
            /\ fpc' = "sleep"
            /\ UNCHANGED <<r, raised>>
    /\ UNCHANGED <<max_pages, url, pages, items, attempt, sent, fetched>>
    /\ UNCHANGED authVars
    /\ UNCHANGED svcVars

\* Lines 66-67 and 62: the sleep is over, the request is sent again.
pco_get_retry ==
    /\ fpc = "sleep"
    /\ attempt' = attempt + 1
    /\ sent' = sent + 1
    /\ fpc' = "request"
    /\ UNCHANGED <<max_pages, url, pages, items, answers, slept, r, fetched, raised>>
    /\ UNCHANGED authVars
    /\ UNCHANGED svcVars

\* Lines 150-153 and 148: the walk takes the answer of pco_get.
fetch_page ==
    /\ fpc = "got"
    /\ IF r.status # 200
       THEN /\ raised' = r.status
            /\ fpc' = "raised"
            /\ UNCHANGED <<url, pages, items, fetched, attempt, sent, answers, slept, r>>
       ELSE /\ items' = items \o r.data
            /\ url' = r.next
            /\ pages' = pages + 1
            /\ fetched' = Append(fetched, [data |-> r.data, next |-> r.next])
            /\ IF Continue(url', pages')
               THEN BeginGet
               ELSE /\ fpc' = "returned"
                    /\ UNCHANGED <<attempt, sent, answers, slept, r>>
            /\ UNCHANGED raised
    /\ UNCHANGED max_pages
    /\ UNCHANGED authVars
    /\ UNCHANGED svcVars

InitGet ==
    /\ InitAuth
    /\ configured
    /\ InitGetIdle
    /\ InitSvcIdle
    /\ max_pages \in 1 .. MaxPagesArg

NextGet ==
    \/ fetch_service_types
    \/ \E a \in Answers(sent, url) : pco_get(a)
    \/ pco_get_retry
    \/ fetch_page

SpecGet == InitGet /\ [][NextGet]_vars

\* ------------------------------------------------------ _best_name_matches
MaxItems == 2         \* the most service types the upstream returns, but
                      \* for the three of ExampleItems

MissingSequence == 99999    \* ... .get('sequence') or 99999

Youth == <<"Y", "o", "u", "t", "h">>
YouthWorship == <<"Y", "o", "u", "t", "h", " ", "W", "o", "r", "s", "h", "i", "p">>
Kids == <<"K", "i", "d", "s">>
ItemNames == {Youth, YouthWorship, Kids}
Sequences == {NoneVal, 0, 1}
\* The query strings: "youth", " YOUTH ", "wor" and "".
Queries ==
    {<<"y", "o", "u", "t", "h">>, <<" ", "Y", "O", "U", "T", "H", " ">>,
     <<"w", "o", "r">>, <<>>}

\* The service types of an upstream answer: the id is the place in the list.
ItemsOfLen(k) ==
    {[i \in 1 .. k |-> [id |-> i, name |-> f[i][1], sequence |-> f[i][2]]] :
        f \in [1 .. k -> ItemNames \X Sequences]}
\* The service types Youth, Youth Worship and Kids, none with a sequence.
ExampleItems ==
    <<[id |-> 1, name |-> Youth, sequence |-> NoneVal],
      [id |-> 2, name |-> YouthWorship, sequence |-> NoneVal],
      [id |-> 3, name |-> Kids, sequence |-> NoneVal]>>
ServiceTypeLists == UNION {ItemsOfLen(k) : k \in 0 .. MaxItems} \cup {ExampleItems}

\* str.lower(), character by character
LowerChar(c) ==
    CASE c = "Y" -> "y" [] c = "O" -> "o" [] c = "U" -> "u" [] c = "T" -> "t"
      [] c = "H" -> "h" [] c = "W" -> "w" [] c = "K" -> "k" [] OTHER -> c
lower(str) == [i \in 1 .. Len(str) |-> LowerChar(str[i])]

\* str.strip(): the blanks at both ends go
RECURSIVE lstrip(_)
lstrip(str) ==
    IF str # <<>> /\ Head(str) = " " THEN lstrip(Tail(str)) ELSE str
RECURSIVE rstrip(_)
rstrip(str) ==
    IF str # <<>> /\ str[Len(str)] = " "
    THEN rstrip(SubSeq(str, 1, Len(str) - 1)) ELSE str
strip(str) == rstrip(lstrip(str))

\* str.startswith(q) and `q in str`
startswith(str, q) == Len(q) <= Len(str) /\ SubSeq(str, 1, Len(q)) = q
contains(str, q) ==
    \E i \in 1 .. Len(str) - Len(q) + 1 : SubSeq(str, i, i + Len(q) - 1) = q

\* Line 160: q = (query or "").strip().lower()
NormalQuery(query) == lower(strip(IF TruthyStr(query) THEN query ELSE <<>>))

\* Mutant: the substring branch is missing.
ScoreNoSubstring(nlow, q) ==
    IF nlow = q THEN 3 ELSE IF startswith(nlow, q) THEN 2 ELSE 0

\* Lines 163-166: the score of a lowered name.
Score(nlow, q) ==
    IF nlow = q THEN 3
    ELSE IF startswith(nlow, q) THEN 2
    ELSE IF contains(nlow, q) THEN 1
    ELSE 0

\* Lines 161-167: the (score, item) pairs of the items that score.
RECURSIVE ScoreAll(_, _)
ScoreAll(its, q) ==
    IF its = <<>> THEN <<>>
    ELSE LET it == Head(its)
             name == IF TruthyStr(it.name) THEN it.name ELSE <<>>
             score == Score(lower(name), q)
         IN (IF score > 0 THEN <<<<score, it>>>> ELSE <<>>) \o ScoreAll(Tail(its), q)

\* Line 168: the sort key, and the order of two keys.
SortKey(t) ==
    <<0 - t[1], IF Truthy(t[2].sequence) THEN t[2].sequence ELSE MissingSequence>>
KeyLess(a, b) == a[1] < b[1] \/ (a[1] = b[1] /\ a[2] < b[2])

\* list.sort is stable: an element goes behind those whose key is not larger.
RECURSIVE InsertByKey(_, _)
InsertByKey(sorted, t) ==
    IF sorted = <<>> THEN <<t>>
    ELSE IF KeyLess(SortKey(t), SortKey(Head(sorted))) THEN <<t>> \o sorted
    ELSE <<Head(sorted)>> \o InsertByKey(Tail(sorted), t)
RECURSIVE SortScored(_)
SortScored(sc) ==
    IF sc = <<>> THEN <<>>
    ELSE InsertByKey(SortScored(SubSeq(sc, 1, Len(sc) - 1)), sc[Len(sc)])

\* Lines 159-169, as state: the call's arguments, `scored` and the result.
best_name_matches(its, query) ==
    /\ match_items' = its
    /\ match_query' = query
    /\ scored' = ScoreAll(its, NormalQuery(query))
    /\ matches' = LET sc == SortScored(scored') IN [i \in 1 .. Len(sc) |-> sc[i][2]]

\* _normalize_service_type (folder_name is not modelled)
normalize_service_type(it) == [id |-> it.id, name |-> it.name, sequence |-> it.sequence]

\* ------------------------------------------------------- the /pco/* handlers
FetchErrors == {429, 500}
UpstreamGet(path, id) == [path |-> path, id |-> id]

\* The handler answers its client.
SvcAnswer(status, count, body) ==
    /\ svc_resp' = [status |-> status, count |-> count, body |-> body]
    /\ spc' = "done"

\* Lines 217-220: /pco/services/service-types/resolve up to the walk.
resolve_service_type(query) ==
    /\ spc = "idle"
    /\ svc_request' = [NoRequest EXCEPT !.route = "resolve", !.query = query]
    /\ svc_reqs' = <<UpstreamGet("service_types", NoneVal)>>
    /\ spc' = "resolve"
    /\ UNCHANGED <<DEFAULT_SERVICE_TYPE_ID, DEFAULT_SERVICE_TYPE_NAME, use_id,
                   match_items, match_query, scored, matches, svc_resp>>
    /\ UNCHANGED <<authVars, getVars>>

\* Lines 220-223: the walk returned its items; the matches are the answer.
resolve_service_type_fetched(its) ==
    /\ spc = "resolve"
    /\ best_name_matches(its, svc_request.query)
    /\ SvcAnswer(200, Len(matches'),
                 [i \in 1 .. Len(matches') |-> normalize_service_type(matches'[i])])
    /\ UNCHANGED <<DEFAULT_SERVICE_TYPE_ID, DEFAULT_SERVICE_TYPE_NAME, svc_request,
                   use_id, svc_reqs>>
    /\ UNCHANGED <<authVars, getVars>>

\* Line 150: the walk raised; the handler ends with the upstream status.
service_types_failed(status) ==
    /\ spc \in {"resolve", "by_name", "by_default"}
    /\ SvcAnswer(status, 0, <<>>)
    /\ UNCHANGED <<DEFAULT_SERVICE_TYPE_ID, DEFAULT_SERVICE_TYPE_NAME, svc_request,
                   use_id, match_items, match_query, scored, matches, svc_reqs>>
    /\ UNCHANGED <<authVars, getVars>>

\* ---------------------------------------------------- the JSON:API documents
MaxPlans == 2         \* the most plans (or people) in an upstream document

Jan15 == <<"2", "0", "2", "4", "-", "0", "1", "-", "1", "5">>
Feb01 == <<"2", "0", "2", "4", "-", "0", "2", "-", "0", "1">>
Mar01 == <<"2", "0", "2", "4", "-", "0", "3", "-", "0", "1">>
TenAM == <<"1", "0", ":", "0", "0">>
Drums == <<"D", "r", "u", "m", "s">>
Mail1 == <<"a", "@", "x">>
Mail2 == <<"b", "@", "x">>
Phone1 == <<"5", "5", "5">>

Ref(type, id) == [type |-> type, id |-> id]
Resource(type, id, attributes) == [type |-> type, id |-> id, attributes |-> attributes]

\* `attributes` of the side-loaded resources; an absent or null `attributes`
\* and absent attributes read as None.
NoPlanTimeAttrs == [starts_at |-> NoneStr, ends_at |-> NoneStr, name |-> NoneStr]
NoNeededAttrs == [team_position_name |-> NoneStr, quantity |-> NoneVal,
                  assigned_count |-> NoneVal]
PlanTime1 == Resource("PlanTime", 1, [NoPlanTimeAttrs EXCEPT !.starts_at = TenAM])
PlanTime2 == Resource("PlanTime", 2, NoPlanTimeAttrs)
Needed1 == Resource("NeededPosition", 1,
                    [team_position_name |-> Drums, quantity |-> 2, assigned_count |-> 0])
Email1 == Resource("Email", 1, [address |-> Mail1])
Email2 == Resource("Email", 2, [address |-> Mail2])
PhoneNumber1 == Resource("PhoneNumber", 1, [number |-> Phone1])

\* The plans a document is made of (title and series_title are passed on as
\* they are and not modelled).
PlanKinds ==
    {[attributes |-> [sort_date |-> Jan15, dates |-> NoneStr],
      relationships |-> [plan_times |-> <<Ref("PlanTime", 1)>>,
                         needed_positions |-> <<>>]],
     [attributes |-> [sort_date |-> Feb01, dates |-> NoneStr],
      relationships |-> [plan_times |-> <<Ref("PlanTime", 1), Ref("PlanTime", 2)>>,
                         needed_positions |-> <<Ref("NeededPosition", 1)>>]],
     [attributes |-> [sort_date |-> NoneStr, dates |-> Mar01],
      relationships |-> [plan_times |-> <<>>, needed_positions |-> <<>>]]}
PlanIncluded ==
    {<<>>, <<PlanTime1>>, <<PlanTime2, Needed1>>, <<PlanTime1, PlanTime2, Needed1>>}

PersonKinds ==
    {[relationships |-> [emails |-> <<Ref("Email", 1)>>, phone_numbers |-> <<>>]],
     [relationships |-> [emails |-> <<Ref("Email", 1), Ref("Email", 2)>>,
                         phone_numbers |-> <<Ref("PhoneNumber", 1)>>]],
     [relationships |-> [emails |-> <<>>, phone_numbers |-> <<>>]]}
PersonIncluded ==
    {<<>>, <<Email1>>, <<Email2, PhoneNumber1>>, <<Email1, Email2, PhoneNumber1>>}

\* The documents of a 200 answer: `data` (the id is the place in the list)
\* and `included` (absent and empty read the same).
DataOfLen(kinds, k) ==
    {[i \in 1 .. k |-> [id |-> i, kind |-> f[i]]] : f \in [1 .. k -> kinds]}
Documents(kinds, incs) ==
    {[data |-> d, included |-> inc] :
        d \in UNION {DataOfLen(kinds, k) : k \in 0 .. MaxPlans}, inc \in incs}

\* Lines 190 and 254: the lookup by "{type}:{id}"; a later resource of the
\* same type and id replaces an earlier one.
Hits(included, ref) ==
    {i \in DOMAIN included : included[i].type = ref.type /\ included[i].id = ref.id}
Resolves(included, ref) == Hits(included, ref) # {}
Resolved(included, ref) ==
    included[CHOOSE i \in Hits(included, ref) : \A j \in Hits(included, ref) : j <= i]

\* Lines 196-198 and 200-202: the attribute of each reference, where truthy.
RECURSIVE Attrs(_, _, _)
Attrs(included, refs, attr) ==
    IF refs = <<>> THEN <<>>
    ELSE LET ref == Head(refs)
             val == IF Resolves(included, ref)
                    THEN Resolved(included, ref).attributes[attr] ELSE NoneStr
         IN (IF TruthyStr(val) THEN <<val>> ELSE <<>>)
            \o Attrs(included, Tail(refs), attr)

\* Lines 192-205: a person flattened.
Person(item, included) ==
    [id |-> item.id,
     emails |-> Attrs(included, item.kind.relationships.emails, "address"),
     phones |-> Attrs(included, item.kind.relationships.phone_numbers, "number")]

\* Lines 260-262: one element per plan_times reference.
Times(included, refs) ==
    [i \in 1 .. Len(refs) |->
        LET tattrs == IF Resolves(included, refs[i])
                      THEN Resolved(included, refs[i]).attributes ELSE NoPlanTimeAttrs
        IN [starts_at |-> tattrs.starts_at, ends_at |-> tattrs.ends_at,
            name |-> tattrs.name]]

\* Lines 264-267: one element per needed_positions reference.
NeededPositions(included, refs) ==
    [i \in 1 .. Len(refs) |->
        LET nattrs == IF Resolves(included, refs[i])
                      THEN Resolved(included, refs[i]).attributes ELSE NoNeededAttrs
        IN [team_position_name |-> nattrs.team_position_name,
            quantity |-> nattrs.quantity, assigned_count |-> nattrs.assigned_count]]

\* Lines 256-270: a plan flattened.
Plan(item, included) ==
    [id |-> item.id,
     dates |-> IF TruthyStr(item.kind.attributes.sort_date)
               THEN item.kind.attributes.sort_date ELSE item.kind.attributes.dates,
     times |-> Times(included, item.kind.relationships.plan_times),
     needed_positions |->
         NeededPositions(included, item.kind.relationships.needed_positions)]

\* ---------------------------------------------------------- find_person
\* Lines 183-188: /pco/people/find up to the upstream GET.
find_person ==
    /\ spc = "idle"
    /\ svc_request' = [NoRequest EXCEPT !.route = "people"]
    /\ svc_reqs' = <<UpstreamGet("people", NoneVal)>>
    /\ spc' = "people"
    /\ UNCHANGED <<DEFAULT_SERVICE_TYPE_ID, DEFAULT_SERVICE_TYPE_NAME, use_id,
                   match_items, match_query, scored, matches, svc_resp>>
    /\ UNCHANGED <<authVars, getVars>>

\* Lines 189-206: the answer of the upstream, flattened.
find_person_response(status, doc) ==
    /\ spc = "people"
    /\ IF status # 200
       THEN SvcAnswer(status, 0, <<>>)
       ELSE LET results == [i \in 1 .. Len(doc.data) |->
                               Person(doc.data[i], doc.included)]
            IN SvcAnswer(200, Len(results), results)
    /\ UNCHANGED <<DEFAULT_SERVICE_TYPE_ID, DEFAULT_SERVICE_TYPE_NAME, svc_request,
                   use_id, match_items, match_query, scored, matches, svc_reqs>>
    /\ UNCHANGED <<authVars, getVars>>

\* ------------------------------------------------------- services_plans
ServiceTypeIds == {NoneVal, 0, 7}
ServiceTypeNames == {NoneStr, <<>>, <<"y", "o", "u", "t", "h">>}
DateFilters == {NoneStr, Feb01}
DefaultIds == {NoneVal, 9}
DefaultNames == {NoneStr, <<"k", "i", "d", "s">>}

\* Lines 248-252: the plans of the service type are requested.
RequestPlans(use, log) ==
    /\ use_id' = use
    /\ svc_reqs' = Append(log, UpstreamGet("plans", use))
    /\ spc' = "plans"
    /\ UNCHANGED svc_resp

\* Line 247: no service type could be determined.
Unprocessable(log) ==
    /\ use_id' = NoneVal
    /\ svc_reqs' = log
    /\ SvcAnswer(422, 0, <<>>)

\* Lines 246-252 with 172-174: the defaults of the environment step in when
\* no id was chosen; the default name needs the walk.
Proceed(use, log) ==
    IF Truthy(use) THEN RequestPlans(use, log)
    ELSE IF Truthy(DEFAULT_SERVICE_TYPE_ID)
    THEN RequestPlans(DEFAULT_SERVICE_TYPE_ID, log)
    ELSE IF TruthyStr(DEFAULT_SERVICE_TYPE_NAME)
    THEN /\ use_id' = use
         /\ svc_reqs' = Append(log, UpstreamGet("service_types", NoneVal))
         /\ spc' = "by_default"
         /\ UNCHANGED svc_resp
    ELSE Unprocessable(log)

\* Lines 238-242: /pco/services/plans up to its first upstream request.
services_plans(service_type_id, service_type_name, from_date, to_date) ==
    /\ spc = "idle"
    /\ svc_request' = [route |-> "plans", query |-> NoneStr,
                       service_type_id |-> service_type_id,
                       service_type_name |-> service_type_name,
                       from_date |-> from_date, to_date |-> to_date]
    /\ IF ~Truthy(service_type_id) /\ TruthyStr(service_type_name)
       THEN /\ use_id' = service_type_id
            /\ svc_reqs' = <<UpstreamGet("service_types", NoneVal)>>
            /\ spc' = "by_name"
            /\ UNCHANGED svc_resp
       ELSE Proceed(service_type_id, <<>>)
    /\ UNCHANGED <<DEFAULT_SERVICE_TYPE_ID, DEFAULT_SERVICE_TYPE_NAME,
                   match_items, match_query, scored, matches>>
    /\ UNCHANGED <<authVars, getVars>>

\* Mutant: a name that matches nothing falls back to the defaults.
NoMatchFallsBack(log) ==
    Proceed(NoneVal, log)

\* Line 244: nothing matched the service_type_name.
NoMatch(log) ==
    /\ svc_reqs' = log
    /\ SvcAnswer(404, 0, <<>>)
    /\ UNCHANGED use_id

\* The locals of _best_name_matches and of the resolution are dead.
ForgetMatches ==
    /\ match_items' = <<>>
    /\ match_query' = NoneStr
    /\ scored' = <<>>
    /\ matches' = <<>>

\* Lines 242-243: the walk for service_type_name returned its items.
services_plans_named(its) ==
    /\ spc = "by_name"
    /\ best_name_matches(its, svc_request.service_type_name)
    /\ spc' = "named"
    /\ UNCHANGED <<DEFAULT_SERVICE_TYPE_ID, DEFAULT_SERVICE_TYPE_NAME, svc_request,
                   use_id, svc_reqs, svc_resp>>
    /\ UNCHANGED <<authVars, getVars>>

\* Lines 244-252: the top match is the service type, or the request fails.
services_plans_matched ==
    /\ spc = "named"
    /\ IF matches = <<>>
       THEN NoMatch(svc_reqs)
       ELSE Proceed(matches[1].id, svc_reqs)
    /\ ForgetMatches
    /\ UNCHANGED <<DEFAULT_SERVICE_TYPE_ID, DEFAULT_SERVICE_TYPE_NAME, svc_request>>
    /\ UNCHANGED <<authVars, getVars>>

\* Lines 174-175: the walk for DEFAULT_SERVICE_TYPE_NAME returned its items.
services_plans_default(its) ==
    /\ spc = "by_default"
    /\ best_name_matches(its, DEFAULT_SERVICE_TYPE_NAME)
    /\ spc' = "defaulted"
    /\ UNCHANGED <<DEFAULT_SERVICE_TYPE_ID, DEFAULT_SERVICE_TYPE_NAME, svc_request,
                   use_id, svc_reqs, svc_resp>>
    /\ UNCHANGED <<authVars, getVars>>

\* Lines 176-177 and 246-252: the top match is the default, or there is none.
services_plans_defaulted ==
    /\ spc = "defaulted"
    /\ IF matches = <<>>
       THEN Unprocessable(svc_reqs)
       ELSE IF Truthy(matches[1].id)
       THEN RequestPlans(matches[1].id, svc_reqs)
       ELSE Unprocessable(svc_reqs)
    /\ ForgetMatches
    /\ UNCHANGED <<DEFAULT_SERVICE_TYPE_ID, DEFAULT_SERVICE_TYPE_NAME, svc_request>>
    /\ UNCHANGED <<authVars, getVars>>

\* Lines 253-271: the answer of the upstream, flattened.
services_plans_response(status, doc) ==
    /\ spc = "plans"
    /\ IF status # 200
       THEN SvcAnswer(status, 0, <<>>)
       ELSE LET plans_out == [i \in 1 .. Len(doc.data) |->
                                 Plan(doc.data[i], doc.included)]
            IN SvcAnswer(200, Len(plans_out), plans_out)
    /\ UNCHANGED <<DEFAULT_SERVICE_TYPE_ID, DEFAULT_SERVICE_TYPE_NAME, svc_request,
                   use_id, match_items, match_query, scored, matches, svc_reqs>>
    /\ UNCHANGED <<authVars, getVars>>

\* A /pco/* request whose token is at hand; the defaults are the environment's.
InitSvc ==
    /\ InitAuth
    /\ configured
    /\ InitGetIdle
    /\ max_pages = DefaultMaxPages
    /\ DEFAULT_SERVICE_TYPE_ID \in DefaultIds
    /\ DEFAULT_SERVICE_TYPE_NAME \in DefaultNames
    /\ svc_request = NoRequest
    /\ spc = "idle"
    /\ use_id = NoneVal
    /\ match_items = <<>>
    /\ match_query = NoneStr
    /\ scored = <<>>
    /\ matches = <<>>
    /\ svc_reqs = <<>>
    /\ svc_resp = NoSvcResponse

NextSvc ==
    \/ \E query \in Queries : resolve_service_type(query)
    \/ \E its \in ServiceTypeLists : resolve_service_type_fetched(its)
    \/ \E status \in FetchErrors : service_types_failed(status)
    \/ find_person
    \/ \E status \in ApiStatuses, doc \in Documents(PersonKinds, PersonIncluded) :
          find_person_response(status, doc)
    \/ \E id \in ServiceTypeIds, name \in ServiceTypeNames,
          from_date \in DateFilters, to_date \in DateFilters :
          services_plans(id, name, from_date, to_date)
    \/ \E its \in ServiceTypeLists : services_plans_named(its)
    \/ services_plans_matched
    \/ \E its \in ServiceTypeLists : services_plans_default(its)
    \/ services_plans_defaulted
    \/ \E status \in ApiStatuses, doc \in Documents(PlanKinds, PlanIncluded) :
          services_plans_response(status, doc)

SpecSvc == InitSvc /\ [][NextSvc]_vars

\* ================================================================= claims
tkey == tenant_key_from_request
HasRecord == TOKEN_STORE[tkey] # 0
StoredRecord == IF HasRecord THEN heap[TOKEN_STORE[tkey]] ELSE NoRecord
Exchanging(p) == pc[p] \in {"exchange1", "exchange2"}

\* C1: /auth/callback rejects with a client error, sends no token request and
\* stores nothing whenever the state parameter is missing, or the session
\* holds no nonce of /connect, or the two differ.
C1_StateIsRequired ==
    [][\A p \in Procs, s \in Sessions, code \in CodeValues,
          state \in StateParams, error \in ErrorParams :
          ( /\ \/ state = NoneVal
               \/ session[s].oauth_state = NoneVal
               \/ state # session[s].oauth_state
            /\ auth_callback(p, s, code, state, error) )
          => /\ resp'.route = "auth_callback"
             /\ resp'.status = 400
             /\ resp'.reqs = <<>>
             /\ pc'[p] = "idle"
             /\ reqs'[p] = <<>>
             /\ UNCHANGED <<TOKEN_STORE, heap>>]_vars

\* C2: with no record for the tenant, get_valid_access_token fails with 401
\* and the /pco/* handler ends with no upstream request and the store as is.
C2_Unauthorized ==
    [][\A p \in Procs :
          (TOKEN_STORE[tkey] = 0 /\ pc[p] = "idle" /\ get_valid_access_token(p))
          => /\ resp'.route = "pco"
             /\ resp'.status = 401
             /\ resp'.reqs = <<>>
             /\ pc'[p] = "idle"
             /\ reqs'[p] = <<>>
             /\ UNCHANGED <<TOKEN_STORE, heap>>]_vars

C2_Witness ==
    /\ resp.route = "pco"
    /\ resp.status = 401
    /\ ~HasRecord
    /\ started > 0

\* C3: a record less than 60 seconds from expiry (or past it) that holds a
\* refresh token makes get_valid_access_token send exactly one refresh request
\* with that refresh token; the answer's access token and expiry replace the
\* stored ones and the new token, not the old one, is returned.
C3_Refresh ==
    [][\A p \in Procs :
          /\ ( /\ pc[p] = "idle"
               /\ HasRecord
               /\ StoredRecord.expires_at - now < 60
               /\ StoredRecord.refresh_token # NoneVal
               /\ get_valid_access_token(p) )
             => /\ pc'[p] = "refresh"
                /\ reqs'[p] = <<Request("refresh_token", "body",
                                        StoredRecord.refresh_token, NoneVal)>>
          /\ (pc[p] = "refresh" /\ pc'[p] = "upstream")
             => \A payload \in TokenPayloads :
                   refresh_response(p, 200, payload)
                   => /\ Len(reqs'[p]) = 1
                      /\ StoredRecord'.access_token = payload.access_token
                      /\ StoredRecord'.expires_at = now + ExpiresIn(payload)
                      /\ tok'[p] = payload.access_token
                      /\ tok'[p] # heap[entry[p]].access_token
          /\ pc[p] = "refresh" => pc'[p] \in {"refresh", "upstream", "idle"}]_vars

C3_Witness ==
    \E p \in Procs :
        /\ pc[p] = "upstream"
        /\ Len(reqs[p]) = 1
        /\ reqs[p][1].grant = "refresh_token"
        /\ tok[p] = StoredRecord.access_token
        /\ tok[p] > 1

\* C4 as claimed: whatever expires_in the upstream returned, a call that
\* follows a returned call with no time elapsed returns the same token and
\* sends no refresh request.
C4_AlwaysReused ==
    [][\A p \in Procs :
          (lastCall.calls > 0 /\ pc[p] = "idle" /\ get_valid_access_token(p))
          => /\ pc'[p] = "upstream"
             /\ tok'[p] = lastCall.token
             /\ reqs'[p] = <<>>]_vars

\* C4 amended: the following call reuses the token when the record left by
\* the first call is at least 60 seconds from expiry or has no refresh token.
C4_ReusedOutsideWindow ==
    [][\A p \in Procs :
          ( /\ lastCall.calls > 0
            /\ pc[p] = "idle"
            /\ \/ StoredRecord.expires_at - now >= 60
               \/ StoredRecord.refresh_token = NoneVal
            /\ get_valid_access_token(p) )
          => /\ pc'[p] = "upstream"
             /\ tok'[p] = lastCall.token
             /\ reqs'[p] = <<>>
             /\ UNCHANGED <<TOKEN_STORE, heap>>]_vars

C4_Witness ==
    /\ lastCall.calls = 2
    /\ \E p \in Procs : pc[p] = "upstream" /\ tok[p] = lastCall.token /\ reqs[p] = <<>>

\* C9: a failing /auth/callback (error parameter, state check, both token
\* requests refused) leaves TOKEN_STORE and the stored record as they were;
\* a record first appears only with a successful code exchange.
C9_FailedCallbackKeepsStore ==
    [][/\ \A p \in Procs :
             /\ (pc[p] = "idle" /\ started' # started)
                => \A s \in Sessions, code \in CodeValues, state \in StateParams,
                      error \in ErrorParams :
                      ( /\ (Truthy(error) \/ session[s].oauth_state # state)
                        /\ auth_callback(p, s, code, state, error) )
                      => /\ resp'.status = 400
                         /\ UNCHANGED <<TOKEN_STORE, heap>>
             /\ (pc[p] = "exchange2" /\ pc'[p] = "idle")
                => \A status \in TokenStatuses \ {200} :
                      exchange_second_response(p, status, NoPayload)
                      => /\ resp'.route = "auth_callback"
                         /\ resp'.status # 200
                         /\ UNCHANGED TOKEN_STORE
                         /\ StoredRecord' = StoredRecord
       /\ (~HasRecord /\ HasRecord')
          => /\ resp'.route = "auth_callback"
             /\ resp'.status = 200
             /\ \E q \in Procs : Exchanging(q) /\ pc'[q] = "idle"]_vars

C9_Witness ==
    /\ resp.route = "auth_callback"
    /\ resp.detail = "token_exchange_failed"
    /\ HasRecord

\* C10: exchange_code_for_token sends at most two POSTs, the first with the
\* secret in the body, the second with HTTP Basic only after a first non-200
\* answer; the first 200 answer's payload is what gets stored; the callback
\* fails only after two refusals, with the status and body of the second.
C10_Exchange ==
    [][\A p \in Procs :
          /\ pc[p] = "exchange1"
             => /\ reqs[p] = <<Request("authorization_code", "body", local[p].code,
                                       local[p].code_verifier)>>
                /\ pc'[p] \in {"exchange1", "exchange2", "idle"}
          /\ (pc[p] = "exchange1" /\ pc'[p] = "idle")
             => \A payload \in TokenPayloads :
                   exchange_first_response(p, 200, payload)
                   => /\ resp'.status = 200
                      /\ resp'.reqs = <<"body">>
                      /\ StoredRecord'.access_token = payload.access_token
          /\ (pc[p] = "exchange1" /\ pc'[p] = "exchange2")
             => \A status \in TokenStatuses \ {200} :
                   exchange_first_response(p, status, NoPayload)
                   => /\ reqs'[p] = Append(reqs[p],
                            Request("authorization_code", "basic", local[p].code,
                                    local[p].code_verifier))
                      /\ UNCHANGED <<resp, TOKEN_STORE, heap>>
          /\ pc[p] = "exchange2"
             => /\ Len(reqs[p]) = 2
                /\ pc'[p] \in {"exchange2", "idle"}
          /\ (pc[p] = "exchange2" /\ pc'[p] = "idle" /\ resp'.status = 200)
             => \A payload \in TokenPayloads :
                   exchange_second_response(p, 200, payload)
                   => /\ resp'.reqs = <<"body", "basic">>
                      /\ StoredRecord'.access_token = payload.access_token
          /\ (pc[p] = "exchange2" /\ pc'[p] = "idle" /\ resp'.status # 200)
             => /\ UNCHANGED <<TOKEN_STORE, heap>>
                /\ \A status \in TokenStatuses \ {200} :
                      exchange_second_response(p, status, NoPayload)
                      => /\ resp'.status = status
                         /\ resp'.detail = "token_exchange_failed"
                         /\ resp'.upstream = Body(2, status)
                         /\ resp'.reqs = <<"body", "basic">>]_vars

C10_Witness ==
    /\ resp.detail = "token_exchange_failed"
    /\ resp.status = 401
    /\ resp.reqs = <<"body", "basic">>

\* ---------------------------------------------- further claims on Spec
Due(e, t) == e.expires_at - t < 60 /\ e.refresh_token # NoneVal
RefreshSent(p) == Len(reqs[p]) = 1 /\ reqs[p][1].grant = "refresh_token"

\* C16: two refreshes sent with the same old refresh token may be in flight
\* at once; each 200 answer is written to the stored record when it arrives,
\* so the record is the one of the answer that arrived last, not the one of a
\* call that got its answer before.
C16_LastWriteWins ==
    [][\A p \in Procs :
          (pc[p] = "refresh" /\ pc'[p] = "upstream")
          => /\ tok'[p] = nextTok
             /\ TOKEN_STORE'[tkey] = entry[p]
             /\ StoredRecord'.access_token = nextTok
             /\ \E x \in ExpiresInValues :
                   StoredRecord'.expires_at = now + ExpiresIn([expires_in |-> x])
             /\ \A q \in Procs \ {p} :
                   (pc[q] = "upstream" /\ RefreshSent(q) /\ reqs[q] = reqs[p])
                   => /\ tok[q] < nextTok
                      /\ StoredRecord'.access_token # tok[q]]_vars

C16_Witness ==
    \E p, q \in Procs :
        /\ pc[p] = "upstream" /\ pc[q] = "upstream"
        /\ RefreshSent(p) /\ reqs[q] = reqs[p]
        /\ tok[p] < tok[q]
        /\ StoredRecord.access_token = tok[q]

\* C17: a callback that stored a token leaves the session without nonce and
\* verifier, and the state check then rejects the same request again; a
\* callback is accepted only with the nonce of the session, and /connect
\* puts a fresh nonce and verifier in the place of the earlier ones.
C17_NonceConsumed ==
    [][/\ \A p \in Procs :
             (Exchanging(p) /\ pc'[p] = "idle" /\ resp'.status = 200)
             => /\ session'[sess[p]] = EmptySession
                /\ session'[sess[p]].oauth_state # local[p].state
       /\ \A p \in Procs :
             (pc[p] = "idle" /\ pc'[p] = "exchange1")
             => /\ local'[p].state = session[sess'[p]].oauth_state
                /\ local'[p].code_verifier = session[sess'[p]].pkce_verifier
       /\ \A s \in Sessions :
             session'[s] # session[s]
             => \/ session'[s] = EmptySession
                \/ /\ nextNonce' = nextNonce + 1
                   /\ session'[s] = [oauth_state |-> nextNonce,
                                     pkce_verifier |-> nextNonce]
                   /\ \A state \in StateParams :
                         state # nextNonce => session'[s].oauth_state # state]_vars

\* C18: a refused refresh ends the call with an error and no token: nothing
\* is handed to the handler (a call that sent a refresh returns a token only
\* with a 200 answer, and never the old one), the store and the stored record
\* stay as they are, a record that was due stays due, and a call that follows
\* while the record is due sends the refresh again.
C18_RefreshFailure ==
    [][\A p \in Procs :
          /\ (pc[p] = "refresh" /\ pc'[p] = "idle")
             => /\ resp'.route = "pco"
                /\ resp'.status = 500
                /\ resp'.detail = "HTTPStatusError"
                /\ tok'[p] = NoneVal
                /\ lastCall' = lastCall
                /\ TOKEN_STORE' = TOKEN_STORE
                /\ StoredRecord' = StoredRecord
                /\ Due(StoredRecord, now) => Due(StoredRecord', now')
          /\ pc[p] = "refresh" => pc'[p] \in {"refresh", "upstream", "idle"}
          /\ (pc[p] = "refresh" /\ pc'[p] = "upstream")
             => /\ nextTok' = nextTok + 1
                /\ tok'[p] # heap[entry[p]].access_token
          /\ ( /\ resp.detail = "HTTPStatusError"
               /\ pc[p] = "idle"
               /\ started' # started
               /\ HasRecord
               /\ Due(StoredRecord, now)
               /\ get_valid_access_token(p) )
             => /\ pc'[p] = "refresh"
                /\ RefreshSent(p)'
                /\ reqs'[p][1].arg = StoredRecord.refresh_token]_vars

C18_Witness ==
    /\ resp.detail = "HTTPStatusError"
    /\ resp.status = 500
    /\ HasRecord
    /\ Due(StoredRecord, now)
    /\ started = 3
    /\ pc[1] = "refresh" /\ RefreshSent(1) /\ entry[1] = TOKEN_STORE[tkey]
    /\ pc[2] = "idle"

\* C19: a record dict changes only in the step of a 200 answer of the token
\* endpoint, all at once: after the step its access token and its expiry are
\* those of one payload of that answer, and it is the stored record.
C19_NeverTorn ==
    [][\A o \in Objs :
          (heap'[o] # heap[o] /\ heap'[o] # NoRecord)
          => /\ TOKEN_STORE'[tkey] = o
             /\ nextTok' = nextTok + 1
             /\ \E payload \in TokenPayloads :
                   /\ heap'[o].access_token = payload.access_token
                   /\ heap'[o].expires_at = now + ExpiresIn(payload)
                   /\ \/ heap'[o].refresh_token = payload.refresh_token
                      \/ /\ payload.refresh_token = NoneVal
                         /\ heap'[o].refresh_token = heap[o].refresh_token
             /\ \E p \in Procs :
                   \/ pc[p] = "refresh" /\ pc'[p] = "upstream" /\ entry[p] = o
                   \/ Exchanging(p) /\ pc'[p] = "idle" /\ resp'.status = 200]_vars

C19_Witness ==
    /\ started = 3
    /\ resp.route = "auth_callback"
    /\ resp.status = 200
    /\ TOKEN_STORE[tkey] = 1
    /\ StoredRecord.access_token = 3
    /\ \E p \in Procs : pc[p] = "upstream" /\ RefreshSent(p) /\ tok[p] = 3

\* C20: a record that is within 60 seconds of expiry, or past it, and holds
\* no refresh token is handed out as it is: no refresh request, no error, the
\* record unchanged; and a tenant that has a record keeps having one.
C20_NoRefreshToken ==
    [][/\ \A p \in Procs :
             ( /\ pc[p] = "idle"
               /\ HasRecord
               /\ StoredRecord.refresh_token = NoneVal
               /\ StoredRecord.expires_at - now < 60
               /\ get_valid_access_token(p) )
             => /\ pc'[p] = "upstream"
                /\ tok'[p] = StoredRecord.access_token
                /\ reqs'[p] = <<>>
                /\ resp' = resp
                /\ UNCHANGED <<TOKEN_STORE, heap>>
       /\ HasRecord => HasRecord']_vars

C20_Witness ==
    /\ HasRecord
    /\ StoredRecord.refresh_token = NoneVal
    /\ StoredRecord.expires_at <= now
    /\ \E p \in Procs :
          pc[p] = "upstream" /\ reqs[p] = <<>> /\ tok[p] = StoredRecord.access_token

\* ------------------------------------------------------- claims on SpecGet
RECURSIVE Flatten(_)
Flatten(ps) == IF ps = <<>> THEN <<>> ELSE ps[1].data \o Flatten(Tail(ps))

GetEnded == fpc \in {"got", "returned", "raised"}

\* C5: after the answers 429, 429, 200 pco_get has slept exactly twice, has
\* sent exactly three requests and hands back the third answer, the 200.
C5_TwoSleepsThenAnswer ==
    answers = <<429, 429, 200>>
    => /\ fpc \in {"got", "returned"}
       /\ Len(slept) = 2
       /\ sent = 3
       /\ r.n = 3
       /\ r.status = 200

C5_Witness == fpc = "got" /\ answers = <<429, 429, 200>>

\* C6 as claimed: a pco_get call sends at most max_retries (3) requests and
\* hands back the third consecutive 429.
C6_ThreeRequests ==
    /\ sent <= max_retries
    /\ answers = <<429, 429, 429>> => (GetEnded /\ r.n = 3 /\ r.status = 429)

\* C6 amended: a pco_get call sends at most max_retries + 1 requests (the
\* first and max_retries retries); the 429 to the last of them is handed back
\* as it is, after max_retries sleeps, and nothing more is sent.
C6_RetriesBounded ==
    /\ sent <= max_retries + 1
    /\ Len(slept) <= max_retries
    /\ Len(answers) = max_retries + 1
       => /\ GetEnded
          /\ sent = max_retries + 1
          /\ r.n = max_retries + 1
          /\ r.status = answers[max_retries + 1]
    /\ (Len(answers) = max_retries /\ answers[max_retries] = 429)
       => fpc \in {"sleep", "request", "raised"}

C6_Witness ==
    /\ fpc = "got"
    /\ answers = <<429, 429, 429, 429>>
    /\ r.status = 429
    /\ Len(slept) = 3

\* C7: an answer with a status other than 429 ends the call at once: it is
\* the answer handed back, no sleep follows it and no request is sent after
\* it, however many 429 answers came before.
C7_OnlyRateLimitRetried ==
    \A i \in 1 .. Len(answers) :
        answers[i] # 429
        => /\ i = Len(answers)
           /\ GetEnded
           /\ r.n = i
           /\ r.status = answers[i]
           /\ sent = i
           /\ Len(slept) = i - 1

C7_Witness == fpc = "got" /\ answers = <<429, 500>> /\ Len(slept) = 1

\* C8: the walk fetches at most max_pages pages, whatever `next` links the
\* pages carry; it returns before max_pages only at a page without a `next`
\* link, and what it returns is the pages' `data`, concatenated in order.
C8_WalkBounded ==
    /\ pages <= max_pages
    /\ Len(fetched) = pages
    /\ fpc = "returned"
       => /\ pages >= 1
          /\ items = Flatten(fetched)
          /\ \A i \in 1 .. pages - 1 : Truthy(fetched[i].next)
          /\ pages < max_pages => ~Truthy(fetched[pages].next)
    /\ (fpc \in {"request", "sleep", "got"} /\ pages > 0)
       => Truthy(fetched[pages].next)

C8_Witness ==
    /\ fpc = "returned"
    /\ max_pages > 1
    /\ pages = max_pages
    /\ Truthy(url)
    /\ Len(items) > pages

\* ------------------------------------------------------- claims on SpecSvc
\* A call of _best_name_matches has returned and its frame is still there.
Matched == match_query # NoneStr
NameLow(it) == lower(IF TruthyStr(it.name) THEN it.name ELSE <<>>)
TrimmedLow(query) == lower(strip(query))
ScoreIn(it) == scored[CHOOSE i \in DOMAIN scored : scored[i][2] = it][1]

\* The order of two items of equal score: ascending sequence, an item without
\* a sequence behind every item that has one, otherwise the input order.
SequenceOrdered(a, b) ==
    IF a.sequence # NoneVal /\ b.sequence # NoneVal
    THEN a.sequence < b.sequence \/ (a.sequence = b.sequence /\ a.id < b.id)
    ELSE IF a.sequence = NoneVal /\ b.sequence = NoneVal
    THEN a.id < b.id
    ELSE b.sequence = NoneVal

\* C11: the matches come sorted by score descending, then sequence ascending
\* with the items without a sequence last, and items equal in both keep their
\* input order; a sequence of 0 is a sequence like any other.
C11_SortedBySequence ==
    Matched
    => \A i, j \in DOMAIN matches :
          i < j
          => \/ ScoreIn(matches[i]) > ScoreIn(matches[j])
             \/ /\ ScoreIn(matches[i]) = ScoreIn(matches[j])
                /\ SequenceOrdered(matches[i], matches[j])

\* C12: the matches are exactly the items whose name contains the trimmed
\* query, case-insensitively, each once; an exact match scores 3, a prefix
\* match 2, any other 1, and a higher score comes first; for Youth, Youth
\* Worship, Kids and the query "youth" the result is Youth, Youth Worship.
C12_ExactlyTheMatching ==
    Matched
    => LET q == TrimmedLow(match_query) IN
       /\ {matches[i] : i \in DOMAIN matches}
          = {match_items[k] : k \in {n \in DOMAIN match_items :
                                       contains(NameLow(match_items[n]), q)}}
       /\ \A i, j \in DOMAIN matches : i # j => matches[i] # matches[j]
       /\ Len(scored) = Len(matches)
       /\ \A i \in DOMAIN scored :
             scored[i][1] = IF NameLow(scored[i][2]) = q THEN 3
                            ELSE IF startswith(NameLow(scored[i][2]), q) THEN 2
                            ELSE 1
       /\ \A i, j \in DOMAIN matches :
             i < j => ScoreIn(matches[i]) >= ScoreIn(matches[j])
       /\ (match_items = ExampleItems /\ q = <<"y", "o", "u", "t", "h">>)
          => matches = <<ExampleItems[1], ExampleItems[2]>>

C12_Witness ==
    /\ spc = "done"
    /\ match_items = ExampleItems
    /\ match_query = <<" ", "Y", "O", "U", "T", "H", " ">>
    /\ Len(matches) = 2
    /\ svc_resp.count = 2

\* The references of a relationship that `included` resolves.
ResolvedCount(included, refs) ==
    Cardinality({i \in DOMAIN refs : Resolves(included, refs[i])})

\* C13: a reference that `included` does not resolve adds no element: each
\* output array of a person (emails, phones) and of a plan (times,
\* needed_positions) has one element per reference that resolved.
C13_AbsentReferenceOmitted ==
    [][/\ spc = "people"
          => \A doc \in Documents(PersonKinds, PersonIncluded) :
                find_person_response(200, doc)
                => \A i \in DOMAIN doc.data :
                      LET rel == doc.data[i].kind.relationships IN
                      /\ Len(svc_resp'.body[i].emails)
                         = ResolvedCount(doc.included, rel.emails)
                      /\ Len(svc_resp'.body[i].phones)
                         = ResolvedCount(doc.included, rel.phone_numbers)
       /\ spc = "plans"
          => \A doc \in Documents(PlanKinds, PlanIncluded) :
                services_plans_response(200, doc)
                => \A i \in DOMAIN doc.data :
                      LET rel == doc.data[i].kind.relationships IN
                      /\ Len(svc_resp'.body[i].times)
                         = ResolvedCount(doc.included, rel.plan_times)
                      /\ Len(svc_resp'.body[i].needed_positions)
                         = ResolvedCount(doc.included, rel.needed_positions)]_vars

\* The lexical order of two strings, by code point.
CharCode(c) ==
    CASE c = "-" -> 45 [] c = "0" -> 48 [] c = "1" -> 49 [] c = "2" -> 50
      [] c = "3" -> 51 [] c = "4" -> 52 [] c = "5" -> 53 [] c = "6" -> 54
      [] c = "7" -> 55 [] c = "8" -> 56 [] c = "9" -> 57
RECURSIVE LexLess(_, _)
LexLess(a, b) ==
    IF a = <<>> THEN b # <<>>
    ELSE IF b = <<>> THEN FALSE
    ELSE IF Head(a) = Head(b) THEN LexLess(Tail(a), Tail(b))
    ELSE CharCode(Head(a)) < CharCode(Head(b))

PlansAnswered ==
    spc = "done" /\ svc_request.route = "plans" /\ svc_resp.status = 200

\* C14: with from_date no returned plan's `dates` sorts before it, with
\* to_date none sorts after it, and `count` counts the returned plans.
C14_DateFilter ==
    PlansAnswered
    => /\ svc_resp.count = Len(svc_resp.body)
       /\ svc_request.from_date # NoneStr
          => \A i \in DOMAIN svc_resp.body :
                ~LexLess(svc_resp.body[i].dates, svc_request.from_date)
       /\ svc_request.to_date # NoneStr
          => \A i \in DOMAIN svc_resp.body :
                ~LexLess(svc_request.to_date, svc_resp.body[i].dates)

PlansRequested == {i \in DOMAIN svc_reqs : svc_reqs[i].path = "plans"}
TypesRequested == {i \in DOMAIN svc_reqs : svc_reqs[i].path = "service_types"}

\* C15: /pco/services/plans takes the service_type_id parameter; else the top
\* match of service_type_name, failing with 404 when nothing matches whatever
\* the defaults are; else DEFAULT_SERVICE_TYPE_ID; else the top match of
\* DEFAULT_SERVICE_TYPE_NAME; with no id from any of these it fails with 422
\* and requests no plans. The plans requested are those of the id chosen.
C15_ServiceTypeOrder ==
    [][LET id == svc_request'.service_type_id
           name == svc_request'.service_type_name
           plans(u) == /\ spc' = "plans"
                       /\ use_id' = u
                       /\ svc_reqs' = Append(svc_reqs, UpstreamGet("plans", u))
           top(u) == /\ matches # <<>>
                     /\ u = matches[1].id
                     /\ \A k \in DOMAIN matches :
                           ScoreIn(matches[1]) >= ScoreIn(matches[k])
           fails(status) == /\ spc' = "done"
                            /\ svc_resp'.status = status
                            /\ svc_reqs' = svc_reqs
                            /\ PlansRequested' = {}
       IN
       /\ (spc = "idle" /\ svc_request'.route = "plans")
          => IF Truthy(id) THEN plans(id)
             ELSE IF TruthyStr(name)
             THEN /\ spc' = "by_name"
                  /\ svc_reqs' = <<UpstreamGet("service_types", NoneVal)>>
             ELSE IF Truthy(DEFAULT_SERVICE_TYPE_ID)
             THEN plans(DEFAULT_SERVICE_TYPE_ID)
             ELSE IF TruthyStr(DEFAULT_SERVICE_TYPE_NAME)
             THEN /\ spc' = "by_default"
                  /\ svc_reqs' = <<UpstreamGet("service_types", NoneVal)>>
             ELSE fails(422)
       /\ (spc = "by_name" /\ spc' = "named")
          => match_query' = svc_request.service_type_name
       /\ (spc = "named" /\ spc' # "named")
          => IF matches = <<>> THEN fails(404)
             ELSE top(use_id') /\ plans(matches[1].id)
       /\ (spc = "by_default" /\ spc' = "defaulted")
          => match_query' = DEFAULT_SERVICE_TYPE_NAME
       /\ (spc = "defaulted" /\ spc' # "defaulted")
          => IF matches = <<>> THEN fails(422)
             ELSE top(use_id') /\ plans(matches[1].id)
       /\ Cardinality(PlansRequested') <= 1
       /\ Cardinality(TypesRequested') <= 1]_vars

C15_Witness ==
    /\ spc = "done"
    /\ svc_request.route = "plans"
    /\ svc_resp.status = 404
    /\ DEFAULT_SERVICE_TYPE_ID = 9
    /\ svc_reqs = <<UpstreamGet("service_types", NoneVal)>>


====
